---- MODULE Spec2Model ----
(***************************************************************************)
(* Model of the musli wire encoder (crates/musli-wire/src/en.rs) and of    *)
(* the dynamic Value bridge (crates/musli-value/src/value.rs, de.rs).      *)
(*                                                                         *)
(* Bytes are naturals 0..255, byte strings are sequences of bytes.         *)
(* The host is a 16-bit target (usize::MAX = 2^16 - 1), the narrowest      *)
(* width Rust supports, so that the overflow of len * 2 is reachable with  *)
(* small integers.  An error is propagated with `?`: the session ends at   *)
(* the first call that fails.                                              *)
(***************************************************************************)
EXTENDS Integers, Sequences, FiniteSets, TLC

VARIABLES
    cfg,        \* the <I, L> type parameters of the encoder
    writer,     \* WireEncoder.writer: the bytes written so far
    pack_buf,   \* WirePackEncoder.pack_buf: the staged bytes of the open pack
    stack,      \* the open container encoders, innermost last
    enc,        \* what the caller holds: "encoder", "container", "pack", "done", "failed",
                \* or "bridge" when it holds a Value instead of a wire encoder,
                \* or "source" when it holds a decoder that is not over a Value
    err,        \* the error returned by the last call, "none" if it succeeded
    log,        \* the calls made so far: name, argument, writer length before, bytes written
    calls,      \* number of encode calls made in this session
    value,      \* the Value handed to Value::decode / Value::encode
    decoded,    \* the result of Value::decode over value.decoder()
    output,     \* the bytes of the wire encodings made by the Value bridge
    call,       \* the one Decoder method called on the decoder, and its result
    sub         \* the pairs decoder or variant decoder that call returned

vars == <<cfg, writer, pack_buf, stack, enc, err, log, calls, value, decoded, output, call, sub>>

wireVars == <<writer, pack_buf, stack, enc, err, log, calls>>
valueVars == <<value, decoded, output, call, sub>>

----------------------------------------------------------------------------
(* Bounds of the model.                                                    *)

\* Width of the host usize in bits.
USIZE_BITS == 16
\* Capacity of the pack staging buffer, the const generic P.
P == 32
\* Number of encode calls in one session, pack items included.
MaxCalls == 3
\* Number of containers open at the same time.
MaxNest == 2

RECURSIVE Pow2(_)
Pow2(n) == IF n = 0 THEN 1 ELSE 2 * Pow2(n - 1)

USIZE_MAX == Pow2(USIZE_BITS) - 1

----------------------------------------------------------------------------
(* Tag: one byte, 3 bits of kind and 5 bits of data.                       *)

KindByte == 0
KindPrefix == 1
KindContinuation == 2
KindSequence == 3

DATA_MASK == 31

Tag_new(kind, data) == kind * 32 + data

Tag_kind(byte) == byte \div 32

Tag_data(byte) == byte % 32

Tag_with_len(kind, len) ==
    IF len < DATA_MASK
    THEN [tag |-> Tag_new(kind, len), embedded |-> TRUE]
    ELSE [tag |-> Tag_new(kind, DATA_MASK), embedded |-> FALSE]

Tag_with_byte(kind, v) ==
    IF v < DATA_MASK
    THEN [tag |-> Tag_new(kind, v), embedded |-> TRUE]
    ELSE [tag |-> Tag_new(kind, DATA_MASK), embedded |-> FALSE]

----------------------------------------------------------------------------
(* Integer codecs: fixed little-endian and 7-bit continuation.             *)

RECURSIVE FixedLe(_, _)
FixedLe(v, width) ==
    IF width = 0 THEN <<>> ELSE <<v % 256>> \o FixedLe(v \div 256, width - 1)

RECURSIVE Continuation(_)
Continuation(v) ==
    IF v < 128 THEN <<v>> ELSE <<128 + (v % 128)>> \o Continuation(v \div 128)

\* I::encode_unsigned of a value of `width` bytes.
I_encode_unsigned(v, width) ==
    IF cfg.I = "Fixed" THEN FixedLe(v, width) ELSE Continuation(v)

\* L::encode_usize: a length is a 64-bit unsigned value on the wire.
L_encode_usize(len) ==
    IF cfg.L = "Fixed" THEN FixedLe(len, 8) ELSE Continuation(len)

\* Zig-zag: (n << 1) ^ (n >> (width - 1)).
ZigZag(n) == IF n >= 0 THEN 2 * n ELSE (-2 * n) - 1

\* I::encode_typed_unsigned: a Continuation tag carrying the width, then the value.
I_encode_typed_unsigned(v, width) ==
    <<Tag_new(KindContinuation, width)>> \o I_encode_unsigned(v, width)

I_encode_typed_signed(v, width) == I_encode_typed_unsigned(ZigZag(v), width)

L_encode_typed_usize(v) ==
    <<Tag_new(KindContinuation, 8)>> \o L_encode_usize(v)

----------------------------------------------------------------------------
(* Writer and FixedBytes<P>.                                               *)

Ok(bytes) == [err |-> "none", out |-> bytes]

Fail(e) == [err |-> e, out |-> <<>>]

\* FixedBytes::write_bytes: the bytes are staged only when they all fit.
FixedBytes_write(buf, bytes) ==
    IF Len(buf) + Len(bytes) > P
    THEN [err |-> "BufferOverflow", buf |-> buf]
    ELSE [err |-> "none", buf |-> buf \o bytes]

----------------------------------------------------------------------------
(* impl Encoder for WireEncoder: the bytes each call writes.               *)

\* the length is written whether or not the tag embeds it
encode_prefix_AlwaysLength(len) ==
    LET t == Tag_with_len(KindPrefix, len)
    IN  <<t.tag>> \o L_encode_usize(len)

encode_prefix(len) ==
    LET t == Tag_with_len(KindPrefix, len)
    IN  <<t.tag>> \o (IF ~t.embedded THEN L_encode_usize(len) ELSE <<>>)

encode_unit == Ok(<<Tag_new(KindSequence, 0)>>)

encode_bytes(bytes) == Ok(encode_prefix(Len(bytes)) \o bytes)

\* the summed length of the slices
SumLen(vectors) ==
    LET RECURSIVE sum(_)
        sum(i) == IF i = 0 THEN 0 ELSE sum(i - 1) + Len(vectors[i])
    IN  sum(Len(vectors))

\* the slices written one after the other
WriteAll(vectors) ==
    LET RECURSIVE cat(_)
        cat(i) == IF i = 0 THEN <<>> ELSE cat(i - 1) \o vectors[i]
    IN  cat(Len(vectors))

\* the tag announces the first slice only
encode_bytes_vectored_FirstLen(vectors) ==
    LET len == IF vectors = <<>> THEN 0 ELSE Len(vectors[1])
        t == Tag_with_len(KindPrefix, len)
    IN  Ok(<<t.tag>> \o (IF ~t.embedded THEN L_encode_usize(len) ELSE <<>>) \o WriteAll(vectors))

encode_bytes_vectored(vectors) ==
    LET len == SumLen(vectors)
        t == Tag_with_len(KindPrefix, len)
    IN  Ok(<<t.tag>> \o (IF ~t.embedded THEN L_encode_usize(len) ELSE <<>>) \o WriteAll(vectors))

encode_array(array) == encode_bytes(array)

\* a string written with a terminating NUL
encode_string_Terminated(string) == encode_bytes(Append(string, 0))

encode_string(string) == encode_bytes(string)

encode_bool(b) == Ok(<<Tag_new(KindByte, IF b THEN 1 ELSE 0)>>)

\* the raw byte is never written
encode_u8_NoRawByte(v) ==
    LET t == Tag_with_byte(KindByte, v)
    IN  Ok(<<t.tag>>)

encode_u8(v) ==
    LET t == Tag_with_byte(KindByte, v)
    IN  Ok(<<t.tag>> \o (IF ~t.embedded THEN <<v>> ELSE <<>>))

encode_u16(v) == Ok(I_encode_typed_unsigned(v, 2))

encode_u32(v) == Ok(I_encode_typed_unsigned(v, 4))

encode_u64(v) == Ok(I_encode_typed_unsigned(v, 8))

encode_u128(v) == Ok(I_encode_typed_unsigned(v, 16))

\* value as u8
encode_i8(v) == encode_u8(v % 256)

\* value as u16, without the zig-zag mapping
encode_i16_Cast(v) == Ok(I_encode_typed_unsigned(v % 65536, 2))

encode_i16(v) == Ok(I_encode_typed_signed(v, 2))

encode_i32(v) == Ok(I_encode_typed_signed(v, 4))

encode_i64(v) == Ok(I_encode_typed_signed(v, 8))

encode_i128(v) == Ok(I_encode_typed_signed(v, 16))

encode_usize(v) == Ok(L_encode_typed_usize(v))

\* value as usize
encode_isize(v) == Ok(L_encode_typed_usize(v % (USIZE_MAX + 1)))

\* a char below 256 written as a u8
encode_char_Narrow(c) == IF c < 256 THEN encode_u8(c) ELSE encode_u32(c)

encode_char(c) == encode_u32(c)

\* value.to_bits(): a float is modelled by its bit pattern
encode_f32(bits) == encode_u32(bits)

encode_f64(bits) == encode_u64(bits)

\* Some written with the tag of None
encode_some_AsNone == Ok(<<Tag_new(KindSequence, 0)>>)

encode_some == Ok(<<Tag_new(KindSequence, 1)>>)

\* None written as the byte 0
encode_none_AsByte == Ok(<<Tag_new(KindByte, 0)>>)

encode_none == Ok(<<Tag_new(KindSequence, 0)>>)

encode_sequence(len) ==
    LET t == Tag_with_len(KindSequence, len)
    IN  Ok(<<t.tag>> \o (IF ~t.embedded THEN L_encode_usize(len) ELSE <<>>))

\* len.wrapping_mul(2)
checked_mul2_Wrapping(len) == [some |-> TRUE, v |-> (len * 2) % (USIZE_MAX + 1)]

\* len.checked_mul(2)
checked_mul2(len) ==
    IF len * 2 > USIZE_MAX THEN [some |-> FALSE, v |-> 0] ELSE [some |-> TRUE, v |-> len * 2]

\* a map has a kind of its own
encode_map_OwnKind(len) ==
    LET m == checked_mul2(len)
        t == Tag_with_len(KindContinuation, m.v)
    IN  IF ~m.some THEN Fail("integer overflow")
        ELSE Ok(<<t.tag>> \o (IF ~t.embedded THEN L_encode_usize(m.v) ELSE <<>>))

encode_map(len) ==
    LET m == checked_mul2(len)
        t == Tag_with_len(KindSequence, m.v)
    IN  IF ~m.some THEN Fail("integer overflow")
        ELSE Ok(<<t.tag>> \o (IF ~t.embedded THEN L_encode_usize(m.v) ELSE <<>>))

\* the tag carries len instead of len * 2
encode_struct_NotDoubled(len) ==
    LET m == checked_mul2(len)
        t == Tag_with_len(KindSequence, len)
    IN  IF ~m.some THEN Fail("integer overflow")
        ELSE Ok(<<t.tag>> \o (IF ~t.embedded THEN L_encode_usize(len) ELSE <<>>))

encode_struct(len) ==
    LET m == checked_mul2(len)
        t == Tag_with_len(KindSequence, m.v)
    IN  IF ~m.some THEN Fail("integer overflow")
        ELSE Ok(<<t.tag>> \o (IF ~t.embedded THEN L_encode_usize(m.v) ELSE <<>>))

encode_tuple(len) ==
    LET m == checked_mul2(len)
        t == Tag_with_len(KindSequence, m.v)
    IN  IF ~m.some THEN Fail("integer overflow")
        ELSE Ok(<<t.tag>> \o (IF ~t.embedded THEN L_encode_usize(m.v) ELSE <<>>))

encode_unit_struct == Ok(<<Tag_new(KindSequence, 0)>>)

\* a variant written as a sequence of one item
encode_variant_AsOne == Ok(<<Tag_new(KindSequence, 1)>>)

encode_variant == Ok(<<Tag_new(KindSequence, 2)>>)

\* PackEncoder::finish: the prefix of the staged length, then the staged bytes.
pack_finish_Unprefixed(buf) == Ok(buf)

pack_finish(buf) == Ok(encode_prefix(Len(buf)) \o buf)

----------------------------------------------------------------------------
(* Inputs of the encoder calls.  The first call of a session draws from    *)
(* the full sets, the second call from small sets, later calls from the    *)
(* smallest ones.                                                          *)

\* Each codec in each role: fixed integers with variable lengths (the
\* configuration of the documented byte examples), and the converse.
Configs == {[I |-> "Fixed", L |-> "Variable"], [I |-> "Variable", L |-> "Fixed"]}

\* The byte string of n bytes 104, 105, ... ("hi" for n = 2).
BytesOf(n) == [i \in 1..n |-> 103 + i]

Tier(first, inner, deep) == IF calls = 0 THEN first ELSE IF calls = 1 THEN inner ELSE deep

\* the calls without an argument that only the first two calls of a session make
Shallow == Tier({0}, {0}, {})

U8Inputs == Tier(0..255, {5, 40}, {40})

BoolInputs == Tier(BOOLEAN, {FALSE}, {})

BytesLens == Tier(0..(DATA_MASK + 2), {2}, {})

StringLens == Tier(0..(DATA_MASK + 2), {}, {})

SequenceLens == Tier({0, 2, DATA_MASK - 1, DATA_MASK}, {2}, {0})

\* lengths around the embedding limit of len * 2 and around usize::MAX / 2
PairLens ==
    Tier({1, 15, 16, USIZE_MAX \div 2, (USIZE_MAX \div 2) + 1, USIZE_MAX}, {1}, {})

\* encode_map is also driven past the overflow inside a container
MapLens == Tier(PairLens, {1, USIZE_MAX}, {USIZE_MAX})

\* every i8, given to the first call of a session
I8Inputs == Tier((-128)..127, {}, {})

I16Inputs == Tier({-32768, -300, -64, -1, 0, 1, 63, 64, 32767}, {}, {})

\* values of the wider signed types, inside and outside 16 bits
WideInputs == Tier({-70000, -64, -1, 0, 1, 63, 70000}, {}, {})

\* scalar values of chars: 'A', U+00E9, U+20AC, U+1F600
CharInputs == Tier({65, 233, 8364, 128512}, {}, {})

\* bit patterns of floats: 0.0, 1.0f32, and patterns with high bytes zero
BitsInputs == Tier({0, 1065353216, 5, 300}, {}, {})

\* the slices of the vectored write: BytesOf(n) cut after k bytes, with an
\* empty slice between the two parts
VectoredInputs ==
    Tier({<<>>} \cup
         UNION {{<<SubSeq(BytesOf(n), 1, k), SubSeq(BytesOf(n), k + 1, n)>>,
                 <<SubSeq(BytesOf(n), 1, k), <<>>, SubSeq(BytesOf(n), k + 1, n)>>}
                : <<n, k>> \in {<<2, 1>>, <<3, 0>>, <<DATA_MASK - 1, 7>>, <<DATA_MASK, 1>>,
                                <<DATA_MASK, DATA_MASK>>, <<DATA_MASK + 2, 16>>}},
         {}, {})

PackU8Inputs == {1, 2}

\* arrays around the embedding limit of the prefix and around the capacity P
PackArrayLens == {DATA_MASK - 1, DATA_MASK, P, P + 1}

----------------------------------------------------------------------------
(* The encoder session.                                                    *)

Entry(op, arg, bytes, r) ==
    [op |-> op, arg |-> arg, bytes |-> bytes, at |-> Len(writer),
     len |-> Len(r.out), err |-> r.err,
     side |-> IF stack = <<>> THEN "top" ELSE stack[Len(stack)].side]

Frame(kind, len) ==
    [kind |-> kind, announced |-> len, items |-> 0, side |-> "none", base |-> Len(writer)]

Top == stack[Len(stack)]

Pop == SubSeq(stack, 1, Len(stack) - 1)

\* Where control returns once the innermost encoder has been consumed.
Parent(st) ==
    IF st = <<>> THEN "done"
    ELSE IF st[Len(st)].kind = "pack" THEN "pack" ELSE "container"

\* A call that consumes the encoder and returns ().
Terminal(op, arg, bytes, r) ==
    /\ enc = "encoder"
    /\ calls < MaxCalls
    /\ writer' = writer \o r.out
    /\ err' = r.err
    /\ enc' = IF r.err # "none" THEN "failed" ELSE Parent(stack)
    /\ log' = Append(log, Entry(op, arg, bytes, r))
    /\ calls' = calls + 1
    /\ UNCHANGED <<cfg, pack_buf, stack, valueVars>>

\* A call that consumes the encoder and returns a container encoder on the same writer.
Starter(op, kind, len, r) ==
    /\ enc = "encoder"
    /\ calls < MaxCalls
    /\ Len(stack) < MaxNest
    /\ writer' = writer \o r.out
    /\ err' = r.err
    /\ enc' = IF r.err # "none" THEN "failed" ELSE "container"
    /\ stack' = IF r.err # "none" THEN stack ELSE Append(stack, Frame(kind, len))
    /\ log' = Append(log, Entry(op, len, <<>>, r))
    /\ calls' = calls + 1
    /\ UNCHANGED <<cfg, pack_buf, valueVars>>

\* A container hands out a sub-encoder over its own writer.
SubEncoder(kinds, side) ==
    /\ enc = "container"
    /\ Top.kind \in kinds
    /\ calls < MaxCalls
    /\ stack' = [stack EXCEPT ![Len(stack)].items = @ + 1, ![Len(stack)].side = side]
    /\ enc' = "encoder"
    /\ UNCHANGED <<cfg, writer, pack_buf, err, log, calls, valueVars>>

EncodeUnit == Terminal("encode_unit", 0, <<>>, encode_unit)

EncodeBool == \E b \in BoolInputs : Terminal("encode_bool", IF b THEN 1 ELSE 0, <<>>, encode_bool(b))

EncodeU8 == \E v \in U8Inputs : Terminal("encode_u8", v, <<>>, encode_u8(v))

EncodeBytes == \E n \in BytesLens : Terminal("encode_bytes", n, BytesOf(n), encode_bytes(BytesOf(n)))

EncodeString == \E n \in StringLens : Terminal("encode_string", n, BytesOf(n), encode_string(BytesOf(n)))

EncodeBytesVectored ==
    \E vs \in VectoredInputs :
        Terminal("encode_bytes_vectored", SumLen(vs), WriteAll(vs), encode_bytes_vectored(vs))

EncodeI8 == \E v \in I8Inputs : Terminal("encode_i8", v, <<>>, encode_i8(v))

EncodeI16 == \E v \in I16Inputs : Terminal("encode_i16", v, <<>>, encode_i16(v))

EncodeI32 == \E v \in WideInputs : Terminal("encode_i32", v, <<>>, encode_i32(v))

EncodeI64 == \E v \in WideInputs : Terminal("encode_i64", v, <<>>, encode_i64(v))

EncodeI128 == \E v \in WideInputs : Terminal("encode_i128", v, <<>>, encode_i128(v))

EncodeChar == \E c \in CharInputs : Terminal("encode_char", c, <<>>, encode_char(c))

EncodeF32 == \E b \in BitsInputs : Terminal("encode_f32", b, <<>>, encode_f32(b))

EncodeF64 == \E b \in BitsInputs : Terminal("encode_f64", b, <<>>, encode_f64(b))

EncodeNone == \E z \in Shallow : Terminal("encode_none", z, <<>>, encode_none)

EncodeUnitStruct == \E z \in Shallow : Terminal("encode_unit_struct", z, <<>>, encode_unit_struct)

\* encode_some returns the encoder itself for the payload.
EncodeSome ==
    /\ enc = "encoder"
    /\ calls < MaxCalls
    /\ Shallow # {}
    /\ writer' = writer \o encode_some.out
    /\ err' = encode_some.err
    /\ log' = Append(log, Entry("encode_some", 0, <<>>, encode_some))
    /\ calls' = calls + 1
    /\ UNCHANGED <<cfg, pack_buf, stack, enc, valueVars>>

EncodeSequence == \E n \in SequenceLens : Starter("encode_sequence", "sequence", n, encode_sequence(n))

EncodeMap == \E n \in MapLens : Starter("encode_map", "map", n, encode_map(n))

EncodeStruct == \E n \in PairLens : Starter("encode_struct", "struct", n, encode_struct(n))

EncodeTuple == \E n \in PairLens : Starter("encode_tuple", "tuple", n, encode_tuple(n))

EncodeVariant == \E z \in Shallow : Starter("encode_variant", "variant", 1 + z, encode_variant)

\* SequenceEncoder::encode_next
EncodeNext == SubEncoder({"sequence"}, "next")

\* PairEncoder::encode_first
EncodeFirst == SubEncoder({"map", "struct", "tuple", "variant"}, "first")

\* PairEncoder::encode_second
EncodeSecond == SubEncoder({"map", "struct", "tuple", "variant"}, "second")

\* finish closes the container with an end marker
Finish_EndMarker ==
    /\ enc = "container"
    /\ writer' = Append(writer, 0)
    /\ stack' = Pop
    /\ enc' = Parent(Pop)
    /\ UNCHANGED <<cfg, pack_buf, err, log, calls, valueVars>>

\* SequenceEncoder::finish and PairEncoder::finish write nothing.
Finish ==
    /\ enc = "container"
    /\ stack' = Pop
    /\ enc' = Parent(Pop)
    /\ UNCHANGED <<cfg, writer, pack_buf, err, log, calls, valueVars>>

\* the Prefix tag is written when the pack is opened
EncodePack_EagerTag ==
    /\ enc = "encoder"
    /\ calls < MaxCalls
    /\ Shallow # {}
    /\ Len(stack) < MaxNest
    /\ pack_buf' = <<>>
    /\ stack' = Append(stack, Frame("pack", 0))
    /\ enc' = "pack"
    /\ err' = "none"
    /\ log' = Append(log, Entry("encode_pack", 0, <<>>, Ok(<<Tag_new(KindPrefix, 0)>>)))
    /\ calls' = calls + 1
    /\ writer' = writer \o <<Tag_new(KindPrefix, 0)>>
    /\ UNCHANGED <<cfg, valueVars>>

\* encode_pack moves the writer into a pack encoder with an empty staging buffer.
EncodePack ==
    /\ enc = "encoder"
    /\ calls < MaxCalls
    /\ Shallow # {}
    /\ Len(stack) < MaxNest
    /\ pack_buf' = <<>>
    /\ stack' = Append(stack, Frame("pack", 0))
    /\ enc' = "pack"
    /\ err' = "none"
    /\ log' = Append(log, Entry("encode_pack", 0, <<>>, Ok(<<>>)))
    /\ calls' = calls + 1
    /\ UNCHANGED <<cfg, writer, valueVars>>

\* PackEncoder::next, then one call on the storage encoder over the staging buffer.
PackItem(op, arg, bytes) ==
    LET w == FixedBytes_write(pack_buf, bytes)
    IN  /\ enc = "pack"
        /\ calls < MaxCalls
        /\ pack_buf' = w.buf
        /\ err' = w.err
        /\ enc' = IF w.err # "none" THEN "failed" ELSE "pack"
        /\ stack' = [stack EXCEPT ![Len(stack)].items = @ + 1]
        /\ log' = Append(log, Entry(op, arg, bytes, [err |-> w.err, out |-> <<>>]))
        /\ calls' = calls + 1
        /\ UNCHANGED <<cfg, writer, valueVars>>

PackEncodeU8 == \E v \in PackU8Inputs : PackItem("pack_u8", v, <<v>>)

PackEncodeArray == \E n \in PackArrayLens : PackItem("pack_array", n, BytesOf(n))

\* PackEncoder::finish
PackFinish ==
    LET r == pack_finish(pack_buf)
    IN  /\ enc = "pack"
        /\ writer' = writer \o r.out
        /\ err' = r.err
        /\ stack' = Pop
        /\ enc' = Parent(Pop)
        /\ log' = Append(log, Entry("pack_finish", Len(pack_buf), pack_buf, r))
        /\ UNCHANGED <<cfg, pack_buf, calls, valueVars>>

----------------------------------------------------------------------------
(* enum Value and enum Number.  Every Value is a record of the same shape; *)
(* the fields a kind does not use hold their default.                      *)

Blank ==
    [kind |-> "Unit", b |-> FALSE, num |-> "", n |-> 0, bytes |-> <<>>, items |-> <<>>, pairs |-> <<>>]

VUnit == Blank

VBool(b) == [Blank EXCEPT !.kind = "Bool", !.b = b]

VChar(c) == [Blank EXCEPT !.kind = "Char", !.n = c]

\* Value::Number(Number::<num>(n)); a float is its bit pattern
VNumber(num, n) == [Blank EXCEPT !.kind = "Number", !.num = num, !.n = n]

VBytes(bytes) == [Blank EXCEPT !.kind = "Bytes", !.bytes = bytes]

VString(string) == [Blank EXCEPT !.kind = "String", !.bytes = string]

VSequence(items) == [Blank EXCEPT !.kind = "Sequence", !.items = items]

VMap(pairs) == [Blank EXCEPT !.kind = "Map", !.pairs = pairs]

VVariant(tag, body) == [Blank EXCEPT !.kind = "Variant", !.pairs = << <<tag, body>> >>]

\* Number::type_hint
Number_type_hint(n) == n.num

\* Value::type_hint
Value_type_hint(v) ==
    CASE v.kind = "Unit" -> [kind |-> "Unit", number |-> "", len |-> 0]
      [] v.kind = "Bool" -> [kind |-> "Bool", number |-> "", len |-> 0]
      [] v.kind = "Char" -> [kind |-> "Char", number |-> "", len |-> 0]
      [] v.kind = "Number" -> [kind |-> "Number", number |-> Number_type_hint(v), len |-> 0]
      [] v.kind = "Bytes" -> [kind |-> "Bytes", number |-> "", len |-> Len(v.bytes)]
      [] v.kind = "String" -> [kind |-> "String", number |-> "", len |-> Len(v.bytes)]
      [] v.kind = "Sequence" -> [kind |-> "Sequence", number |-> "", len |-> Len(v.items)]
      [] v.kind = "Map" -> [kind |-> "Map", number |-> "", len |-> Len(v.pairs)]
      [] v.kind = "Variant" -> [kind |-> "Variant", number |-> "", len |-> 0]

----------------------------------------------------------------------------
(* impl Decoder for ValueDecoder.  A result is [ok, val, err, hint]: the   *)
(* value returned, or the ValueError and the type hint it carries; `want`  *)
(* and `says` are what an error message names as expected and as offered.  *)

Good(val) ==
    [ok |-> TRUE, val |-> val, err |-> "", want |-> "", hint |-> Value_type_hint(VUnit),
     says |-> ""]

Bad(e, v, dflt) ==
    [ok |-> FALSE, val |-> dflt, err |-> e, want |-> "", hint |-> Value_type_hint(v),
     says |-> ""]

ValueDecoder_type_hint(v) == Value_type_hint(v)

decode_unit(v) == IF v.kind = "Unit" THEN Good(TRUE) ELSE Bad("ExpectedUnit", v, TRUE)

decode_bool(v) == IF v.kind = "Bool" THEN Good(v.b) ELSE Bad("ExpectedBool", v, FALSE)

decode_char(v) == IF v.kind = "Char" THEN Good(v.n) ELSE Bad("ExpectedChar", v, 0)

\* ensure!(self, hint, ExpectedNumber(NumberHint::N, hint), Value::Number(Number::N(n)) => Ok(*n))
ensure_number(v, N) ==
    IF v.kind = "Number" /\ v.num = N THEN Good(v.n)
    ELSE [Bad("ExpectedNumber", v, 0) EXCEPT !.want = N]

decode_u8(v) == ensure_number(v, "U8")

\* a u8 is widened to the u16 asked for
decode_u16_Widening(v) ==
    IF v.kind = "Number" /\ v.num \in {"U8", "U16"} THEN Good(v.n)
    ELSE [Bad("ExpectedNumber", v, 0) EXCEPT !.want = "U16"]

decode_u16(v) == ensure_number(v, "U16")

decode_u32(v) == ensure_number(v, "U32")

decode_u64(v) == ensure_number(v, "U64")

decode_u128(v) == ensure_number(v, "U128")

decode_i8(v) == ensure_number(v, "I8")

decode_i16(v) == ensure_number(v, "I16")

decode_i32(v) == ensure_number(v, "I32")

decode_i64(v) == ensure_number(v, "I64")

decode_i128(v) == ensure_number(v, "I128")

decode_usize(v) == ensure_number(v, "Usize")

decode_isize(v) == ensure_number(v, "Isize")

decode_f32(v) == ensure_number(v, "F32")

decode_f64(v) == ensure_number(v, "F64")

\* ValueVisitor::visit_borrowed defaults to visit_any
BytesVisitor_visit_any(bytes) == VBytes(bytes)

BytesVisitor_visit_borrowed(bytes) == BytesVisitor_visit_any(bytes)

StringVisitor_visit_any(string) == VString(string)

StringVisitor_visit_borrowed(string) == StringVisitor_visit_any(string)

\* a string is handed out as its bytes
decode_bytes_OfString(v) ==
    IF v.kind \in {"Bytes", "String"} THEN Good(BytesVisitor_visit_borrowed(v.bytes))
    ELSE Bad("ExpectedBytes", v, VUnit)

decode_bytes(v) ==
    IF v.kind = "Bytes" THEN Good(BytesVisitor_visit_borrowed(v.bytes)) ELSE Bad("ExpectedBytes", v, VUnit)

decode_string(v) ==
    IF v.kind = "String" THEN Good(StringVisitor_visit_borrowed(v.bytes)) ELSE Bad("ExpectedString", v, VUnit)

\* a longer byte string is cut to N bytes
decode_array_Truncating(v, N) ==
    IF v.kind # "Bytes" THEN Bad("ExpectedBytes", v, <<>>)
    ELSE IF Len(v.bytes) < N THEN Bad("ArrayOutOfBounds", v, <<>>)
    ELSE Good(SubSeq(v.bytes, 1, N))

\* <[u8; N]>::try_from(bytes.as_slice())
decode_array(v, N) ==
    IF v.kind # "Bytes" THEN Bad("ExpectedBytes", v, <<>>)
    ELSE IF Len(v.bytes) # N THEN Bad("ArrayOutOfBounds", v, <<>>)
    ELSE Good(v.bytes)

\* IterValueDecoder::new(pack)
decode_pack(v) == IF v.kind = "Sequence" THEN Good(v.items) ELSE Bad("ExpectedSequence", v, <<>>)

\* IterValueDecoder::new(sequence): the slice left to iterate
decode_sequence(v) == IF v.kind = "Sequence" THEN Good(v.items) ELSE Bad("ExpectedSequence", v, <<>>)

\* IterValuePairsDecoder::new(map)
decode_map(v) == IF v.kind = "Map" THEN Good(v.pairs) ELSE Bad("ExpectedMap", v, <<>>)

\* IterValueVariantDecoder::new(st)
decode_variant(v) == IF v.kind = "Variant" THEN Good(v.pairs[1]) ELSE Bad("ExpectedVariant", v, <<VUnit, VUnit>>)

\* a Value that encodes like Unit is taken for None as well
decode_option_EmptyAsNone(v) ==
    IF v.kind = "Unit" \/ (v.kind = "Sequence" /\ v.items = <<>>)
    THEN Good([some |-> FALSE, v |-> VUnit])
    ELSE Good([some |-> TRUE, v |-> v])

\* None for Value::Unit, else Some(ValueDecoder::new(value))
decode_option(v) ==
    IF v.kind = "Unit" THEN Good([some |-> FALSE, v |-> VUnit])
    ELSE Good([some |-> TRUE, v |-> v])

\* slice::Iter::next: the element yielded, if any, and the rest
Iter_next(iter) ==
    IF iter = <<>> THEN [some |-> FALSE, item |-> VUnit, rest |-> <<>>]
    ELSE [some |-> TRUE, item |-> Head(iter), rest |-> Tail(iter)]

\* a decoder over a unit is handed out once the pack has run out
PackDecoder_next_PastEnd(iter) ==
    LET nx == Iter_next(iter)
    IN  [ok |-> TRUE, err |-> "", item |-> nx.item, rest |-> nx.rest]

\* PackDecoder::next of IterValueDecoder
PackDecoder_next(iter) ==
    LET nx == Iter_next(iter)
    IN  IF nx.some THEN [ok |-> TRUE, err |-> "", item |-> nx.item, rest |-> nx.rest]
        ELSE [ok |-> FALSE, err |-> "ExpectedPackValue", item |-> VUnit, rest |-> nx.rest]

\* the lower bound of the iterator is taken, off by the element in flight
SequenceDecoder_size_hint_OffByOne(iter) ==
    [some |-> TRUE, n |-> IF iter = <<>> THEN 0 ELSE Len(iter) - 1]

\* SequenceDecoder::size_hint and PairsDecoder::size_hint: self.iter.size_hint().1
SequenceDecoder_size_hint(iter) == [some |-> TRUE, n |-> Len(iter)]

\* slice::Iter::next over the pairs of a map
PairsIter_next(iter) ==
    IF iter = <<>> THEN [some |-> FALSE, item |-> <<VUnit, VUnit>>, rest |-> <<>>]
    ELSE [some |-> TRUE, item |-> Head(iter), rest |-> Tail(iter)]

IterValuePairDecoder_first(pair) == pair[1]

IterValuePairDecoder_second(pair) == pair[2]

\* the skip is reported as not done
IterValuePairDecoder_skip_second_Refused(pair) == FALSE

\* Ok(true)
IterValuePairDecoder_skip_second(pair) == TRUE

IterValueVariantDecoder_tag(pair) == pair[1]

IterValueVariantDecoder_variant(pair) == pair[2]

\* Ok(true)
IterValueVariantDecoder_skip_variant(pair) == TRUE

----------------------------------------------------------------------------
(* impl Decode for Value, over a ValueDecoder on the Value v.              *)

WrapNumber(num, r) == IF r.ok THEN Good(VNumber(num, r.val)) ELSE [r EXCEPT !.val = VUnit]

Unsupported(h) ==
    [ok |-> FALSE, val |-> VUnit, err |-> "unsupported type", want |-> "", hint |-> h,
     says |-> ""]

RECURSIVE Value_decode(_)
RECURSIVE DecodeSequenceLoop(_, _)
RECURSIVE DecodeMapLoop(_, _)

\* the items are inserted at the front of the output
DecodeSequenceLoop_Reversed(iter, out) ==
    LET nx == Iter_next(iter)
        item == Value_decode(nx.item)
    IN  IF ~nx.some THEN Good(VSequence(out))
        ELSE IF ~item.ok THEN item
        ELSE DecodeSequenceLoop(nx.rest, <<item.val>> \o out)

\* while let Some(item) = seq.next()? { out.push(decode(item)?) }
DecodeSequenceLoop(iter, out) ==
    LET nx == Iter_next(iter)
        item == Value_decode(nx.item)
    IN  IF ~nx.some THEN Good(VSequence(out))
        ELSE IF ~item.ok THEN item
        ELSE DecodeSequenceLoop(nx.rest, Append(out, item.val))

\* a pair replaces the pair already stored under the same key
DecodeMapLoop_Dedup(iter, out) ==
    LET nx == PairsIter_next(iter)
        first == Value_decode(IterValuePairDecoder_first(nx.item))
        second == Value_decode(IterValuePairDecoder_second(nx.item))
        same == {i \in 1..Len(out) : out[i][1] = first.val}
    IN  IF ~nx.some THEN Good(VMap(out))
        ELSE IF ~first.ok THEN first
        ELSE IF ~second.ok THEN second
        ELSE IF same # {}
        THEN DecodeMapLoop(nx.rest, [i \in 1..Len(out) |->
                                        IF i \in same THEN <<first.val, second.val>> ELSE out[i]])
        ELSE DecodeMapLoop(nx.rest, Append(out, <<first.val, second.val>>))

\* while let Some(mut item) = seq.next()? { first; second; out.push((first, second)) }
DecodeMapLoop(iter, out) ==
    LET nx == PairsIter_next(iter)
        first == Value_decode(IterValuePairDecoder_first(nx.item))
        second == Value_decode(IterValuePairDecoder_second(nx.item))
    IN  IF ~nx.some THEN Good(VMap(out))
        ELSE IF ~first.ok THEN first
        ELSE IF ~second.ok THEN second
        ELSE DecodeMapLoop(nx.rest, Append(out, <<first.val, second.val>>))

\* the I8 arm calls decode_u8
DecodeNumberArm_I8ViaU8(v, n) ==
    IF n = "I8" THEN WrapNumber("I8", decode_u8(v))
    ELSE IF n \in {"U8", "U16", "U32", "U64", "U128", "I16", "I32", "I64", "I128",
                   "Usize", "Isize", "F32", "F64"}
    THEN WrapNumber(n, ensure_number(v, n))
    ELSE Unsupported(Value_type_hint(v))

DecodeNumberArm(v, n) ==
    CASE
             n = "U8" -> WrapNumber("U8", decode_u8(v))
          [] n = "U16" -> WrapNumber("U16", decode_u16(v))
          [] n = "U32" -> WrapNumber("U32", decode_u32(v))
          [] n = "U64" -> WrapNumber("U64", decode_u64(v))
          [] n = "U128" -> WrapNumber("U128", decode_u128(v))
          [] n = "I8" -> WrapNumber("I8", decode_i8(v))
          [] n = "I16" -> WrapNumber("I16", decode_i16(v))
          [] n = "I32" -> WrapNumber("I32", decode_i32(v))
          [] n = "I64" -> WrapNumber("I64", decode_i64(v))
          [] n = "I128" -> WrapNumber("I128", decode_i128(v))
          [] n = "Usize" -> WrapNumber("Usize", decode_usize(v))
          [] n = "Isize" -> WrapNumber("Isize", decode_isize(v))
          [] n = "F32" -> WrapNumber("F32", decode_f32(v))
          [] n = "F64" -> WrapNumber("F64", decode_f64(v))
          [] OTHER -> Unsupported(Value_type_hint(v))

Value_decode(v) ==
    LET h == ValueDecoder_type_hint(v)
    IN  CASE h.kind = "Unit" ->
               LET r == decode_unit(v) IN IF r.ok THEN Good(VUnit) ELSE [r EXCEPT !.val = VUnit]
          [] h.kind = "Bool" ->
               LET r == decode_bool(v) IN IF r.ok THEN Good(VBool(r.val)) ELSE [r EXCEPT !.val = VUnit]
          [] h.kind = "Char" ->
               LET r == decode_char(v) IN IF r.ok THEN Good(VChar(r.val)) ELSE [r EXCEPT !.val = VUnit]
          [] h.kind = "Number" -> DecodeNumberArm(v, h.number)
          [] h.kind = "Bytes" -> decode_bytes(v)
          [] h.kind = "String" -> decode_string(v)
          [] h.kind = "Sequence" ->
               LET seq == decode_sequence(v)
               IN  IF ~seq.ok THEN [seq EXCEPT !.val = VUnit] ELSE DecodeSequenceLoop(seq.val, <<>>)
          [] h.kind = "Map" ->
               LET seq == decode_map(v)
               IN  IF ~seq.ok THEN [seq EXCEPT !.val = VUnit] ELSE DecodeMapLoop(seq.val, <<>>)
          [] h.kind = "Variant" ->
               LET variant == decode_variant(v)
                   first == Value_decode(IterValueVariantDecoder_tag(variant.val))
                   second == Value_decode(IterValueVariantDecoder_variant(variant.val))
               IN  IF ~variant.ok THEN [variant EXCEPT !.val = VUnit]
                   ELSE IF ~first.ok THEN first
                   ELSE IF ~second.ok THEN second
                   ELSE Good(VVariant(first.val, second.val))
          [] OTHER -> Unsupported(h)

----------------------------------------------------------------------------
(* impl Decode for Value, over a decoder that provides type_hint alone:    *)
(* every decode method is the one the Decoder trait provides.              *)

\* Decoder::type_hint as the trait provides it: TypeHint::Any
Decoder_type_hint == [kind |-> "Any", number |-> "", len |-> 0]

\* the expecting:: marker of each method the Decoder trait provides
Expecting ==
    [decode_unit |-> "Unit", decode_bool |-> "Bool", decode_char |-> "Char",
     decode_u8 |-> "Unsigned8", decode_u16 |-> "Unsigned16", decode_u32 |-> "Unsigned32",
     decode_u64 |-> "Unsigned64", decode_u128 |-> "Unsigned128",
     decode_i8 |-> "Signed8", decode_i16 |-> "Signed16", decode_i32 |-> "Signed32",
     decode_i64 |-> "Signed64", decode_i128 |-> "Signed128",
     decode_usize |-> "Usize", decode_isize |-> "Isize",
     decode_f32 |-> "Float32", decode_f64 |-> "Float64",
     decode_number |-> "Number", decode_array |-> "Array",
     decode_bytes |-> "Bytes", decode_string |-> "String", decode_option |-> "Option",
     decode_pack |-> "Pack", decode_sequence |-> "Sequence", decode_tuple |-> "Tuple",
     decode_map |-> "Map", decode_struct |-> "Struct", decode_variant |-> "Variant"]

\* Decoder::expecting of the decoder of the session, as ExpectingWrapper displays it
Decoder_expecting == call.offers

\* the provided decode_unit returns the unit
Decoder_provided_UnitOk(method) ==
    IF method = "decode_unit" THEN Good(TRUE)
    ELSE [ok |-> FALSE, val |-> VUnit, err |-> "InvalidType", want |-> Expecting[method],
          hint |-> Decoder_type_hint, says |-> Decoder_expecting]

\* Err(Self::Error::message(InvalidType::new(expecting::X, &ExpectingWrapper(self))))
Decoder_provided(method) ==
    [ok |-> FALSE, val |-> VUnit, err |-> "InvalidType", want |-> Expecting[method],
     hint |-> Decoder_type_hint, says |-> Decoder_expecting]

\* the decode method of each NumberHint in the Number arm of Value::decode
NumberMethod ==
    [U8 |-> "decode_u8", U16 |-> "decode_u16", U32 |-> "decode_u32", U64 |-> "decode_u64",
     U128 |-> "decode_u128", I8 |-> "decode_i8", I16 |-> "decode_i16", I32 |-> "decode_i32",
     I64 |-> "decode_i64", I128 |-> "decode_i128", Usize |-> "decode_usize",
     Isize |-> "decode_isize", F32 |-> "decode_f32", F64 |-> "decode_f64"]

\* an arm that calls one method of the decoder and returns its error with `?`
ViaProvided(method) == [res |-> Decoder_provided(method), made |-> <<method>>]

\* a hint without an arm is decoded as a unit
UnsupportedArm_AsUnit(h) == ViaProvided("decode_unit")

\* hint => Err(D::Error::message("Value: unsupported type {hint}"))
UnsupportedArm(h) == [res |-> Unsupported(h), made |-> <<>>]

\* LengthHint::size_hint of the length Exact(len)
LengthHint_size_hint(len) == len

\* Vec::with_capacity(len.size_hint()) of the Sequence and Map arms
Capacity(h) == IF h.kind \in {"Sequence", "Map"} THEN LengthHint_size_hint(h.len) ELSE 0

\* Value::decode(decoder) where decoder.type_hint() reports h: the result,
\* and the decode methods called on the decoder
Value_decode_provided(h) ==
    CASE h.kind = "Unit" -> ViaProvided("decode_unit")
      [] h.kind = "Bool" -> ViaProvided("decode_bool")
      [] h.kind = "Char" -> ViaProvided("decode_char")
      [] h.kind = "Number" ->
           IF h.number \in DOMAIN NumberMethod THEN ViaProvided(NumberMethod[h.number])
           ELSE UnsupportedArm(h)
      [] h.kind = "Bytes" -> ViaProvided("decode_bytes")
      [] h.kind = "String" -> ViaProvided("decode_string")
      [] h.kind = "Sequence" -> ViaProvided("decode_sequence")
      [] h.kind = "Map" -> ViaProvided("decode_map")
      [] h.kind = "Variant" -> ViaProvided("decode_variant")
      [] OTHER -> UnsupportedArm(h)

----------------------------------------------------------------------------
(* impl Encode for Number and for Value, driving the wire encoder.         *)

\* `?`: the second step runs only when the first succeeded
Then(r1, r2) == IF r1.err # "none" THEN r1 ELSE [err |-> r2.err, out |-> r1.out \o r2.out]

Number_encode(n) ==
    CASE
         n.num = "U8" -> encode_u8(n.n)
      [] n.num = "U16" -> encode_u16(n.n)
      [] n.num = "U32" -> encode_u32(n.n)
      [] n.num = "U64" -> encode_u64(n.n)
      [] n.num = "U128" -> encode_u128(n.n)
      [] n.num = "I8" -> encode_i8(n.n)
      [] n.num = "I16" -> encode_i16(n.n)
      [] n.num = "I32" -> encode_i32(n.n)
      [] n.num = "I64" -> encode_i64(n.n)
      [] n.num = "I128" -> encode_i128(n.n)
      [] n.num = "Usize" -> encode_usize(n.n)
      [] n.num = "Isize" -> encode_isize(n.n)
      [] n.num = "F32" -> encode_f32(n.n)
      [] n.num = "F64" -> encode_f64(n.n)

RECURSIVE Value_encode(_)
RECURSIVE EncodeSequenceLoop(_)
RECURSIVE EncodeMapLoop(_)
RECURSIVE EncodeSequenceLoop_Reversed(_)

\* the elements are encoded last to first
EncodeSequenceLoop_Reversed(values) ==
    IF values = <<>> THEN Ok(<<>>)
    ELSE Then(EncodeSequenceLoop_Reversed(Tail(values)), Value_encode(Head(values)))

\* for value in values { encode(value, sequence.next()?)? }
EncodeSequenceLoop(values) ==
    IF values = <<>> THEN Ok(<<>>)
    ELSE Then(Value_encode(Head(values)), EncodeSequenceLoop(Tail(values)))

\* insert(first, second): the first through encode_first, the second through encode_second
PairEncoder_insert(first, second) == Then(Value_encode(first), Value_encode(second))

\* for (first, second) in values { map.insert(first, second)? }
EncodeMapLoop(values) ==
    IF values = <<>> THEN Ok(<<>>)
    ELSE Then(PairEncoder_insert(Head(values)[1], Head(values)[2]), EncodeMapLoop(Tail(values)))

Value_encode(v) ==
    CASE v.kind = "Unit" -> encode_unit
      [] v.kind = "Bool" -> encode_bool(v.b)
      [] v.kind = "Char" -> encode_char(v.n)
      [] v.kind = "Number" -> Number_encode(v)
      [] v.kind = "Bytes" -> encode_bytes(v.bytes)
      [] v.kind = "String" -> encode_string(v.bytes)
      [] v.kind = "Sequence" ->
           Then(encode_sequence(Len(v.items)), EncodeSequenceLoop(v.items))
      [] v.kind = "Map" ->
           Then(encode_map(Len(v.pairs)), EncodeMapLoop(v.pairs))
      [] v.kind = "Variant" ->
           Then(encode_variant, PairEncoder_insert(v.pairs[1][1], v.pairs[1][2]))

\* One call of the encoding protocol made while a Value is encoded: the
\* method, the length it announces, the node it encodes and how deep in
\* the Value the encoder it is made on sits.
ProtocolCall(op, len, node, depth) == [op |-> op, len |-> len, node |-> node, depth |-> depth]

RECURSIVE Value_calls(_, _)
RECURSIVE SequenceCalls(_, _)
RECURSIVE MapCalls(_, _)

\* for value in values { encode(value, sequence.next()?)? }
SequenceCalls(values, d) ==
    IF values = <<>> THEN <<>>
    ELSE <<ProtocolCall("next", 0, VUnit, d)>> \o Value_calls(Head(values), d + 1)
             \o SequenceCalls(Tail(values), d)

\* insert(first, second) on a pair encoder at depth d
InsertCalls(first, second, d) ==
    <<ProtocolCall("first", 0, VUnit, d)>> \o Value_calls(first, d + 1)
        \o <<ProtocolCall("second", 0, VUnit, d)>> \o Value_calls(second, d + 1)

\* for (first, second) in values { map.insert(first, second)? }
MapCalls(values, d) ==
    IF values = <<>> THEN <<>>
    ELSE InsertCalls(Head(values)[1], Head(values)[2], d) \o MapCalls(Tail(values), d)

\* the protocol calls Value::encode makes, in the order it makes them
Value_calls(v, d) ==
    CASE v.kind = "Sequence" ->
           <<ProtocolCall("encode_sequence", Len(v.items), v, d)>>
               \o SequenceCalls(v.items, d) \o <<ProtocolCall("end", 0, VUnit, d)>>
      [] v.kind = "Map" ->
           <<ProtocolCall("encode_map", Len(v.pairs), v, d)>>
               \o MapCalls(v.pairs, d) \o <<ProtocolCall("end", 0, VUnit, d)>>
      [] v.kind = "Variant" ->
           <<ProtocolCall("encode_variant", 1, v, d)>>
               \o InsertCalls(v.pairs[1][1], v.pairs[1][2], d)
      [] OTHER -> <<ProtocolCall("encode", 0, v, d)>>

----------------------------------------------------------------------------
(* The Values the bridge is exercised on.                                  *)

\* Number of items of a generated sequence.
MaxLen == 2
\* Number of pairs of a generated map.
MaxPairs == 2
\* Number of next() calls made after a decoder has run out.
MaxPast == 2

\* the scalars, and the variant of the documented example
Leaves ==
    {VUnit, VBool(TRUE), VBool(FALSE), VChar(97), VChar(128512),
     VNumber("U8", 0), VNumber("U8", 200), VNumber("U16", 300), VNumber("U32", 70000),
     VNumber("U64", 5), VNumber("U128", 31), VNumber("I8", -1), VNumber("I8", 5),
     VNumber("I16", -300), VNumber("I32", 7), VNumber("I64", -1), VNumber("I128", -70000),
     VNumber("Usize", USIZE_MAX), VNumber("Isize", -1),
     VNumber("F32", 1065353216), VNumber("F32", 2143289344), VNumber("F64", 1),
     VBytes(<<>>), VBytes(<<1, 2>>), VString(<<>>), VString(<<104, 105>>),
     VVariant(VNumber("U8", 3), VBool(FALSE))}

Atoms == {VUnit, VBool(TRUE), VNumber("U8", 40), VNumber("I16", -3), VString(<<104, 105>>)}

KeyAtoms == {VNumber("U8", 5), VString(<<104, 105>>)}

SeqsOf(S, n) == UNION {[1..k -> S] : k \in 0..n}

Level1 ==
    {VSequence(items) : items \in SeqsOf(Atoms, MaxLen)}
    \cup {VMap(pairs) : pairs \in SeqsOf(KeyAtoms \X Atoms, MaxPairs)}
    \cup {VVariant(t, b) : t \in KeyAtoms, b \in Atoms}

Level2 ==
    {VSequence(<<x>>) : x \in Level1}
    \cup {VSequence(<<VBool(FALSE), x>>) : x \in Level1}
    \cup {VMap(<< <<VNumber("U8", 5), x>> >>) : x \in Level1}
    \cup {VVariant(x, VUnit) : x \in Level1}

Values == Leaves \cup Level1 \cup Level2

----------------------------------------------------------------------------
(* The Value bridge: decode a Value from a Value, encode Values on the     *)
(* wire.                                                                   *)

NotRun == [ran |-> FALSE, err |-> "none", out |-> <<>>, made |-> <<>>]

Ran(r) == [ran |-> TRUE, err |-> r.err, out |-> r.out, made |-> <<>>]

\* Value::decode(value.decoder()); the decoder is consumed by one call
Decode ==
    /\ enc = "bridge"
    /\ decoded.err = "not run"
    /\ call.method = "none"
    /\ decoded' = Value_decode(value)
    /\ UNCHANGED <<cfg, wireVars, value, output, call, sub>>

\* value.encode(WireEncoder::new(writer))
EncodeDirect ==
    /\ enc = "bridge"
    /\ ~output.direct.ran
    /\ output' = [output EXCEPT !.direct = [Ran(Value_encode(value)) EXCEPT !.made = Value_calls(value, 0)]]
    /\ UNCHANGED <<cfg, wireVars, value, decoded, call, sub>>

\* the decoded Value, encoded on the wire
Transcode ==
    /\ enc = "bridge"
    /\ decoded.ok
    /\ ~output.transcoded.ran
    /\ output' = [output EXCEPT !.transcoded = [Ran(Value_encode(decoded.val)) EXCEPT !.made = Value_calls(decoded.val, 0)]]
    /\ UNCHANGED <<cfg, wireVars, value, decoded, call, sub>>

----------------------------------------------------------------------------
(* One method of the ValueDecoder over the Value, called directly, and the *)
(* pairs decoder or variant decoder it returns.                            *)

NoCall ==
    [method |-> "none", res |-> Good(TRUE), made |-> <<>>, src |-> Decoder_type_hint,
     before |-> VUnit, arg |-> 0, offers |-> "", input |-> 0, cap |-> 0]

NoSub ==
    [kind |-> "none", rest |-> <<>>, pos |-> 0, live |-> FALSE, cur |-> <<VUnit, VUnit>>,
     first |-> FALSE, keyed |-> FALSE, skipped |-> 0, op |-> "new", prev |-> "new",
     ret |-> "", got |-> VUnit, asked |-> 0]

Methods ==
    {"decode_unit", "decode_bool", "decode_char", "decode_bytes", "decode_string",
     "decode_option", "decode_pack", "decode_sequence", "decode_map", "decode_variant"}
    \cup {NumberMethod[n] : n \in DOMAIN NumberMethod}

\* the Values whose decoder is called directly: the scalars, and sequences
\* and maps of every length over two items
MethodInputs ==
    Leaves
    \cup {VSequence(items) : items \in SeqsOf({VUnit, VBool(TRUE)}, MaxLen)}
    \cup {VMap(pairs) : pairs \in SeqsOf(KeyAtoms \X {VUnit, VBool(TRUE)}, MaxPairs)}

ValueDecoder_call(method, v) ==
    CASE method = "decode_unit" -> decode_unit(v)
      [] method = "decode_bool" -> decode_bool(v)
      [] method = "decode_char" -> decode_char(v)
      [] method = "decode_u8" -> decode_u8(v)
      [] method = "decode_u16" -> decode_u16(v)
      [] method = "decode_u32" -> decode_u32(v)
      [] method = "decode_u64" -> decode_u64(v)
      [] method = "decode_u128" -> decode_u128(v)
      [] method = "decode_i8" -> decode_i8(v)
      [] method = "decode_i16" -> decode_i16(v)
      [] method = "decode_i32" -> decode_i32(v)
      [] method = "decode_i64" -> decode_i64(v)
      [] method = "decode_i128" -> decode_i128(v)
      [] method = "decode_usize" -> decode_usize(v)
      [] method = "decode_isize" -> decode_isize(v)
      [] method = "decode_f32" -> decode_f32(v)
      [] method = "decode_f64" -> decode_f64(v)
      [] method = "decode_bytes" -> decode_bytes(v)
      [] method = "decode_string" -> decode_string(v)
      [] method = "decode_option" -> decode_option(v)
      [] method = "decode_pack" -> decode_pack(v)
      [] method = "decode_sequence" -> decode_sequence(v)
      [] method = "decode_map" -> decode_map(v)
      [] method = "decode_variant" -> decode_variant(v)

\* value.decoder().<method>(): the decoder is consumed by the call
DecodeMethod ==
    /\ enc = "bridge"
    /\ value \in MethodInputs
    /\ call.method = "none"
    /\ decoded.err = "not run"
    /\ ~output.direct.ran
    /\ \E m \in Methods :
           LET r == ValueDecoder_call(m, value)
           IN  /\ call' = [call EXCEPT !.method = m, !.res = r, !.made = <<m>>,
                                       !.src = ValueDecoder_type_hint(value),
                                       !.before = value]
               /\ sub' = IF r.ok /\ m = "decode_map"
                          THEN [NoSub EXCEPT !.kind = "pairs", !.rest = r.val]
                          ELSE IF r.ok /\ m = "decode_variant"
                          THEN [NoSub EXCEPT !.kind = "variant", !.cur = r.val, !.live = TRUE]
                          ELSE IF r.ok /\ m = "decode_sequence"
                          THEN [NoSub EXCEPT !.kind = "sequence", !.rest = r.val]
                          ELSE IF r.ok /\ m = "decode_pack"
                          THEN [NoSub EXCEPT !.kind = "pack", !.rest = r.val]
                          ELSE NoSub
    /\ UNCHANGED <<cfg, wireVars, value, decoded, output>>

\* the lengths asked of decode_array::<N>
ArrayLens == 0..3

\* value.decoder().decode_array::<N>()
DecodeArray ==
    /\ enc = "bridge"
    /\ value \in MethodInputs
    /\ call.method = "none"
    /\ decoded.err = "not run"
    /\ ~output.direct.ran
    /\ \E N \in ArrayLens :
           call' = [call EXCEPT !.method = "decode_array", !.arg = N,
                                !.res = decode_array(value, N), !.made = <<"decode_array">>,
                                !.src = ValueDecoder_type_hint(value), !.before = value]
    /\ UNCHANGED <<cfg, wireVars, value, decoded, output, sub>>

IterStep(next) ==
    /\ enc = "bridge"
    /\ sub' = [next EXCEPT !.prev = sub.op]
    /\ UNCHANGED <<cfg, wireVars, value, decoded, output, call>>

\* IterValuePairsDecoder::next
PairsNext ==
    /\ sub.kind = "pairs"
    /\ sub.asked < Len(value.pairs) + MaxPast
    /\ LET nx == PairsIter_next(sub.rest)
       IN  IterStep([sub EXCEPT !.rest = nx.rest,
                                 !.pos = IF nx.some THEN @ + 1 ELSE @,
                                 !.asked = @ + 1,
                                 !.live = nx.some, !.cur = nx.item, !.first = FALSE,
                                 !.op = "next", !.ret = IF nx.some THEN "Some" ELSE "None"])

\* SequenceDecoder::next of IterValueDecoder
SeqNext ==
    /\ sub.kind = "sequence"
    /\ sub.asked < Len(value.items) + MaxPast
    /\ LET nx == Iter_next(sub.rest)
       IN  IterStep([sub EXCEPT !.rest = nx.rest,
                                 !.pos = IF nx.some THEN @ + 1 ELSE @,
                                 !.asked = @ + 1, !.got = nx.item,
                                 !.op = "next", !.ret = IF nx.some THEN "Some" ELSE "None"])

\* PackDecoder::next of IterValueDecoder
PackNext ==
    /\ sub.kind = "pack"
    /\ sub.asked < Len(value.items) + MaxPast
    /\ LET r == PackDecoder_next(sub.rest)
       IN  IterStep([sub EXCEPT !.rest = r.rest,
                                 !.pos = IF r.ok THEN @ + 1 ELSE @,
                                 !.asked = @ + 1, !.got = r.item,
                                 !.op = "next", !.ret = IF r.ok THEN "decoder" ELSE r.err])

\* IterValuePairDecoder::first
PairFirst ==
    /\ sub.kind = "pairs"
    /\ sub.live
    /\ IterStep([sub EXCEPT !.first = TRUE, !.op = "first", !.ret = "decoder",
                             !.got = IterValuePairDecoder_first(sub.cur)])

\* IterValuePairDecoder::second consumes the pair decoder
PairSecond ==
    /\ sub.kind = "pairs"
    /\ sub.live
    /\ IterStep([sub EXCEPT !.live = FALSE, !.keyed = sub.first, !.op = "second",
                             !.ret = "decoder",
                             !.got = IterValuePairDecoder_second(sub.cur)])

\* IterValuePairDecoder::skip_second consumes the pair decoder
PairSkipSecond ==
    /\ sub.kind = "pairs"
    /\ sub.live
    /\ IterStep([sub EXCEPT !.live = FALSE, !.keyed = sub.first, !.skipped = sub.pos,
                             !.op = "skip_second",
                             !.ret = IF IterValuePairDecoder_skip_second(sub.cur)
                                     THEN "true" ELSE "false"])

\* IterValueVariantDecoder::tag
VariantTag ==
    /\ sub.kind = "variant"
    /\ sub.live
    /\ IterStep([sub EXCEPT !.first = TRUE, !.op = "tag", !.ret = "decoder",
                             !.got = IterValueVariantDecoder_tag(sub.cur)])

\* IterValueVariantDecoder::variant
VariantBody ==
    /\ sub.kind = "variant"
    /\ sub.live
    /\ IterStep([sub EXCEPT !.op = "variant", !.ret = "decoder",
                             !.got = IterValueVariantDecoder_variant(sub.cur)])

\* IterValueVariantDecoder::skip_variant
VariantSkip ==
    /\ sub.kind = "variant"
    /\ sub.live
    /\ IterStep([sub EXCEPT !.keyed = sub.first, !.op = "skip_variant",
                             !.ret = IF IterValueVariantDecoder_skip_variant(sub.cur)
                                     THEN "true" ELSE "false"])

\* IterValueVariantDecoder::end consumes the variant decoder
VariantEnd ==
    /\ sub.kind = "variant"
    /\ sub.live
    /\ IterStep([sub EXCEPT !.live = FALSE, !.op = "end", !.ret = "unit"])

\* the hints a decoder that is not over a Value may report
SourceHints ==
    {Decoder_type_hint, [kind |-> "Number", number |-> "Any", len |-> 0]}
    \cup {Value_type_hint(v) : v \in Leaves}
    \cup {[kind |-> k, number |-> "", len |-> n] : k \in {"Sequence", "Map"},
                                                     n \in {0, 1, USIZE_MAX}}

\* Value::decode(decoder) over a decoder that reports one of the hints and
\* provides no decode method of its own
DecodeProvided ==
    /\ enc = "source"
    /\ call.method = "none"
    /\ \E h \in SourceHints :
           LET r == Value_decode_provided(h)
           IN  call' = [call EXCEPT !.method = "Value::decode", !.res = r.res,
                                    !.made = r.made, !.src = h, !.cap = Capacity(h)]
    /\ UNCHANGED <<cfg, wireVars, value, decoded, output, sub>>

\* one decode method of a decoder that overrides none of them
CallProvided ==
    /\ enc = "source"
    /\ call.method = "none"
    /\ \E m \in DOMAIN Expecting :
           call' = [call EXCEPT !.method = m, !.res = Decoder_provided(m), !.made = <<m>>]
    /\ UNCHANGED <<cfg, wireVars, value, decoded, output, sub>>

----------------------------------------------------------------------------
(* Specifications.                                                         *)

InitCommon ==
    /\ cfg \in Configs
    /\ writer = <<>>
    /\ pack_buf = <<>>
    /\ stack = <<>>
    /\ err = "none"
    /\ log = <<>>
    /\ calls = 0
    /\ decoded = [Bad("not run", VUnit, VUnit) EXCEPT !.hint = Value_type_hint(VUnit)]
    /\ output = [direct |-> NotRun, transcoded |-> NotRun]
    /\ sub = NoSub

\* WireEncoder::new(writer) over an empty writer
InitWire ==
    /\ InitCommon
    /\ enc = "encoder"
    /\ value = VUnit
    /\ call = NoCall

\* a Value and a decoder over it
InitValue ==
    /\ InitCommon
    /\ enc = "bridge"
    /\ value \in Values
    /\ call = NoCall

\* what the decoders that are not over a Value say they expect, and the
\* bytes left in their input
SourceTexts == {"value decoded from the wire", "value decoded from storage"}

SourceInputs == {0, 1, 40}

\* a decoder that is not over a Value
InitSource ==
    /\ InitCommon
    /\ enc = "source"
    /\ value = VUnit
    /\ \E t \in SourceTexts, n \in SourceInputs :
           call = [NoCall EXCEPT !.offers = t, !.input = n]

Init == InitWire \/ InitValue \/ InitSource

Next ==
    \/ EncodeUnit
    \/ EncodeBool
    \/ EncodeU8
    \/ EncodeBytes
    \/ EncodeString
    \/ EncodeBytesVectored
    \/ EncodeI8
    \/ EncodeI16
    \/ EncodeI32
    \/ EncodeI64
    \/ EncodeI128
    \/ EncodeChar
    \/ EncodeF32
    \/ EncodeF64
    \/ EncodeNone
    \/ EncodeUnitStruct
    \/ EncodeSome
    \/ EncodeSequence
    \/ EncodeMap
    \/ EncodeStruct
    \/ EncodeTuple
    \/ EncodeVariant
    \/ EncodeNext
    \/ EncodeFirst
    \/ EncodeSecond
    \/ Finish
    \/ EncodePack
    \/ PackEncodeU8
    \/ PackEncodeArray
    \/ PackFinish
    \/ Decode
    \/ EncodeDirect
    \/ Transcode
    \/ DecodeMethod
    \/ PairsNext
    \/ PairFirst
    \/ PairSecond
    \/ PairSkipSecond
    \/ VariantTag
    \/ VariantBody
    \/ VariantSkip
    \/ VariantEnd
    \/ DecodeProvided
    \/ DecodeArray
    \/ SeqNext
    \/ PackNext
    \/ CallProvided

Spec == Init /\ [][Next]_vars

----------------------------------------------------------------------------
(* Properties.                                                             *)

\* C1: decoding a Value from the ValueDecoder over a Value v succeeds and
\* yields a Value equal to v: same kinds, number variants, bit patterns,
\* bytes, strings, and the same order of elements and pairs.
ValueRoundTrip ==
    decoded.err # "not run" => (decoded.ok /\ decoded.val = value)

ValueRoundTripWitness ==
    /\ decoded.ok
    /\ value = VMap(<< <<VNumber("U8", 5),
                        VMap(<< <<VString(<<104, 105>>), VNumber("I16", -3)>>,
                                <<VString(<<104, 105>>), VUnit>> >>)>> >>)

\* C2: wire-encoding the Value obtained by Value::decode over a decoder of x
\* writes exactly the bytes that wire-encoding x directly writes.
Transcoding ==
    (output.direct.ran /\ output.transcoded.ran) =>
        (output.transcoded.err = output.direct.err /\ output.transcoded.out = output.direct.out)

TranscodingWitness ==
    /\ output.direct.ran
    /\ output.transcoded.ran
    /\ output.direct.err = "none"
    /\ value = VSequence(<<VBool(FALSE), VSequence(<<VNumber("I16", -3), VNumber("U8", 40)>>)>>)

\* The bytes a logged call wrote.
Written(e) == SubSeq(writer, e.at + 1, e.at + e.len)

Logged == {log[i] : i \in 1..Len(log)}

Last == log[Len(log)]

PairOps == {"encode_map", "encode_struct", "encode_tuple"}

PackItemOps == {"pack_u8", "pack_array"}

\* C3: for every length n <= 30, encode_bytes and encode_string of n bytes,
\* encode_sequence(n) and the prefix of a pack with an n-byte body write one
\* tag byte whose data bits are n, directly followed by the payload.
TagEconomyLengths ==
    \A e \in Logged :
        (e.err = "none" /\ e.arg <= 30) =>
            /\ e.op \in {"encode_bytes", "encode_string", "pack_finish"} =>
                   /\ e.len = 1 + e.arg
                   /\ Tag_kind(Written(e)[1]) = KindPrefix
                   /\ Tag_data(Written(e)[1]) = e.arg
                   /\ Tail(Written(e)) = e.bytes
            /\ e.op = "encode_sequence" =>
                   /\ e.len = 1
                   /\ Tag_kind(Written(e)[1]) = KindSequence
                   /\ Tag_data(Written(e)[1]) = e.arg

TagEconomyLengthsWitness ==
    /\ log # <<>>
    /\ Last.op = "pack_finish"
    /\ Last.arg = 30
    /\ Len(writer) = 31
    /\ writer[1] = 62

\* C4: encode_u8(v) writes the one byte v for v <= 30 and the two bytes
\* 0x1F, v for v in 31..255.
EncodeU8Bytes ==
    \A e \in Logged :
        e.op = "encode_u8" =>
            Written(e) = IF e.arg <= 30 THEN <<e.arg>> ELSE <<31, e.arg>>

EncodeU8BytesWitness ==
    /\ log # <<>>
    /\ Last.op = "encode_u8"
    /\ Last.arg = 31
    /\ writer = <<31, 31>>

\* C5: encode_map(n), encode_struct(n) and encode_tuple(n) with
\* n > usize::MAX / 2 return an integer-overflow error and write nothing.
PairOverflow ==
    (log # <<>> /\ Last.op \in PairOps /\ Last.arg > USIZE_MAX \div 2) =>
        /\ err = "integer overflow"
        /\ enc = "failed"
        /\ Last.len = 0
        /\ Len(writer) = Last.at

PairOverflowWitness ==
    /\ log # <<>>
    /\ Last.op = "encode_map"
    /\ Last.arg = USIZE_MAX
    /\ err = "integer overflow"
    /\ writer = <<98, 5>>

\* The bytes of the items handed to the open pack, counted from the log.
RECURSIVE PackTotal(_)
PackTotal(i) ==
    IF i = 0 \/ log[i].op \notin PackItemOps THEN 0 ELSE Len(log[i].bytes) + PackTotal(i - 1)

\* C6: when the items encoded into a pack total more than P bytes the pack
\* fails with BufferOverflow and no byte of the pack, in particular no
\* Prefix tag, has reached the underlying writer.
PackBound ==
    /\ (log # <<>> /\ Last.op \in PackItemOps /\ PackTotal(Len(log)) > P) =>
           /\ err = "BufferOverflow"
           /\ enc = "failed"
           /\ Len(writer) = Top.base
    /\ err = "BufferOverflow" => Len(writer) = Top.base

PackBoundWitness ==
    /\ err = "BufferOverflow"
    /\ Len(pack_buf) = P
    /\ Len(log) = 3
    /\ Last.op = "pack_u8"
    /\ writer = <<>>

\* C7: for every n with 2n representable, encode_map(n), encode_struct(n)
\* and encode_tuple(n) write the header of encode_sequence(2n), and each
\* later call writes directly after the previous one, so a key encoded through
\* encode_first is directly followed by its value encoded through
\* encode_second.
PairsAsSequence ==
    /\ \A e \in Logged :
           (e.op \in PairOps /\ e.arg * 2 <= USIZE_MAX) =>
               /\ e.err = "none"
               /\ Written(e) = encode_sequence(2 * e.arg).out
    /\ \A i \in 1..Len(log) :
           (log[1].op \in PairOps /\ i < Len(log)) => log[i + 1].at = log[i].at + log[i].len
    /\ (log # <<>> /\ log[1].op \in PairOps) => Len(writer) = Last.at + Last.len

PairsAsSequenceWitness ==
    /\ Len(log) = 3
    /\ log[1].op = "encode_map" /\ log[1].arg = 1
    /\ log[2].op = "encode_u8" /\ log[2].arg = 5 /\ log[2].side = "first"
    /\ log[3].op = "encode_u8" /\ log[3].arg = 40 /\ log[3].side = "second"
    /\ writer = <<98, 5, 31, 40>>
    /\ enc = "done"

\* C8: encode_unit, encode_none, encode_unit_struct, and encode_sequence(0)
\* followed by finish, all write the single byte 0x60 and nothing else.
UnitLike ==
    /\ \A e \in Logged :
           (e.op \in {"encode_unit", "encode_none", "encode_unit_struct"}
            \/ (e.op = "encode_sequence" /\ e.arg = 0)) => Written(e) = <<96>>
    /\ (Len(log) = 1 /\ enc = "done"
        /\ (log[1].op \in {"encode_unit", "encode_none", "encode_unit_struct"}
            \/ (log[1].op = "encode_sequence" /\ log[1].arg = 0))) => writer = <<96>>

UnitLikeWitness ==
    /\ Len(log) = 1
    /\ log[1].op = "encode_sequence"
    /\ log[1].arg = 0
    /\ enc = "done"
    /\ writer = <<96>>

\* C9: encode_some writes the single byte 0x61 and hands back an encoder on
\* the same writer: the payload is written directly after that byte.
SomeLayout ==
    \A i \in 1..Len(log) :
        log[i].op = "encode_some" =>
            /\ Written(log[i]) = <<97>>
            /\ i = Len(log) => (enc = "encoder" /\ Len(writer) = log[i].at + 1)
            /\ i < Len(log) => (log[i + 1].at = log[i].at + 1 /\ log[i + 1].side = log[i].side)

SomeLayoutWitness ==
    /\ Len(log) = 2
    /\ log[1].op = "encode_some"
    /\ log[2].op = "encode_u8"
    /\ writer = <<97, 5>>
    /\ enc = "done"

\* C10: encode_variant writes the single byte 0x62, the tag value and then
\* the body value are written directly after it, and the wire encoding of
\* Value::Variant((t, b)) is 0x62, the encoding of t, the encoding of b.
VariantLayout ==
    /\ \A i \in 1..Len(log) :
           log[i].op = "encode_variant" =>
               /\ Written(log[i]) = <<98>>
               /\ i < Len(log) => log[i + 1].at = log[i].at + 1
               /\ (i + 1 < Len(log) /\ log[i + 2].side = "second") =>
                      log[i + 2].at = log[i + 1].at + log[i + 1].len
    /\ (output.direct.ran /\ value.kind = "Variant") =>
           /\ output.direct.err = "none"
           /\ output.direct.out =
                  <<98>> \o Value_encode(value.pairs[1][1]).out \o Value_encode(value.pairs[1][2]).out

VariantLayoutWitness ==
    /\ output.direct.ran
    /\ value = VVariant(VNumber("U8", 3), VBool(FALSE))
    /\ output.direct.out = <<98, 3, 0>>

SignedOps == {"encode_i8", "encode_i16", "encode_i32", "encode_i64", "encode_i128"}

\* What the unsigned encode of the width of a signed encode writes for u.
UnsignedPath(op, u) ==
    CASE op = "encode_i8" -> encode_u8(u).out
      [] op = "encode_i16" -> encode_u16(u).out
      [] op = "encode_i32" -> encode_u32(u).out
      [] op = "encode_i64" -> encode_u64(u).out
      [] op = "encode_i128" -> encode_u128(u).out

\* C11 as stated: every signed encode, encode_i8 included, writes what the
\* unsigned encode of the same width writes for the zig-zag image of the
\* value.
SignedZigZagAll ==
    \A e \in Logged :
        e.op \in SignedOps => Written(e) = UnsignedPath(e.op, ZigZag(e.arg))

\* C11: encode_i16, encode_i32, encode_i64 and encode_i128 write what the
\* unsigned encode of the same width writes for the zig-zag image of the
\* value; encode_i8 writes what encode_u8 writes for the value reinterpreted
\* as a u8 (two's complement), so a negative i8 takes two bytes.
SignedZigZagWide ==
    \A e \in Logged :
        /\ e.op \in SignedOps \ {"encode_i8"} =>
               /\ e.err = "none"
               /\ Written(e) = UnsignedPath(e.op, ZigZag(e.arg))
               /\ (e.arg < 0 /\ cfg.I = "Variable") =>
                      Written(e) = UnsignedPath(e.op, (-2 * e.arg) - 1)
        /\ e.op = "encode_i8" =>
               /\ e.err = "none"
               /\ Written(e) = encode_u8(IF e.arg < 0 THEN e.arg + 256 ELSE e.arg).out
               /\ e.arg < 0 => Written(e) = <<31, e.arg + 256>>

\* -1 as an i16 under the variable integer codec: the tag and the byte 1
SignedZigZagWideWitness ==
    /\ Len(log) = 1
    /\ Last.op = "encode_i16"
    /\ Last.arg = -1
    /\ cfg.I = "Variable"
    /\ writer = <<Tag_new(KindContinuation, 2), 1>>

\* C12: encode_bytes(b) writes the tag Prefix with len(b) in its data bits
\* when len(b) <= 30, and otherwise the tag Prefix with 31 followed by len(b)
\* in the length codec; then the bytes of b unchanged and in order.
\* encode_string(s) writes exactly what encode_bytes writes for the bytes of s.
BytesLayout ==
    \A e \in Logged :
        /\ e.op \in {"encode_bytes", "encode_string"} =>
               /\ e.err = "none"
               /\ e.arg = Len(e.bytes)
               /\ Written(e) =
                      (IF e.arg <= 30 THEN <<(KindPrefix * 32) + e.arg>>
                       ELSE <<(KindPrefix * 32) + 31>> \o L_encode_usize(e.arg)) \o e.bytes
        /\ e.op = "encode_string" => Written(e) = encode_bytes(e.bytes).out
        /\ (e.op = "encode_bytes" /\ e.bytes = <<>>) => Written(e) = <<32>>
        /\ (e.op = "encode_bytes" /\ e.bytes = <<104, 105>>) => Written(e) = <<34, 104, 105>>

\* a string of 31 bytes: the sentinel tag, the length, the bytes
BytesLayoutWitness ==
    /\ Len(log) = 1
    /\ Last.op = "encode_string"
    /\ Last.arg = 31
    /\ cfg.L = "Variable"
    /\ writer = <<63, 31>> \o BytesOf(31)

\* C13: encode_bytes_vectored(vs) writes exactly the bytes encode_bytes
\* writes for the concatenation of the slices of vs in argument order.
VectoredAsBytes ==
    \A e \in Logged :
        e.op = "encode_bytes_vectored" =>
            /\ e.err = "none"
            /\ e.arg = Len(e.bytes)
            /\ Written(e) = encode_bytes(e.bytes).out

\* 33 bytes in slices: one sentinel tag and one length for the whole
VectoredAsBytesWitness ==
    /\ Len(log) = 1
    /\ Last.op = "encode_bytes_vectored"
    /\ Last.bytes = BytesOf(DATA_MASK + 2)
    /\ cfg.L = "Variable"
    /\ writer = <<63, 33>> \o BytesOf(DATA_MASK + 2)

\* C14: encode_char(c) writes the bytes of encode_u32 of the scalar value of
\* c, encode_f32(x) the bytes of encode_u32 of the bits of x, and
\* encode_f64(x) the bytes of encode_u64 of the bits of x.
CharFloatDelegation ==
    \A e \in Logged :
        /\ e.op \in {"encode_char", "encode_f32"} =>
               /\ e.err = "none"
               /\ Written(e) = encode_u32(e.arg).out
               /\ Written(e)[1] = Tag_new(KindContinuation, 4)
        /\ e.op = "encode_f64" =>
               /\ e.err = "none"
               /\ Written(e) = encode_u64(e.arg).out
               /\ Written(e)[1] = Tag_new(KindContinuation, 8)

\* 'A' under the fixed integer codec: the tag of width 4 and four bytes
CharFloatDelegationWitness ==
    /\ Len(log) = 1
    /\ Last.op = "encode_char"
    /\ Last.arg = 65
    /\ writer = <<Tag_new(KindContinuation, 4), 65, 0, 0, 0>>

NumberMethods == {NumberMethod[n] : n \in DOMAIN NumberMethod}

\* the Number variant a numeric decode method asks for
Asked(method) == CHOOSE n \in DOMAIN NumberMethod : NumberMethod[n] = method

\* C15: a numeric decode method of the ValueDecoder succeeds exactly when
\* the Value is a Number of the variant the method names, and then returns
\* the stored value unchanged; in every other case, a Number of another
\* width included, it fails with ExpectedNumber carrying the variant asked
\* for and the type hint of the Value present.
NumericExact ==
    (enc = "bridge" /\ call.method \in NumberMethods) =>
        LET N == Asked(call.method)
            r == call.res
        IN  /\ r.ok <=> (value.kind = "Number" /\ value.num = N)
            /\ r.ok => r.val = value.n
            /\ ~r.ok =>
                   /\ r.err = "ExpectedNumber"
                   /\ r.want = N
                   /\ r.hint = Value_type_hint(value)
                   /\ r.hint.kind = value.kind
                   /\ value.kind = "Number" => r.hint.number = value.num

\* a u8 that would fit is not widened to the u16 asked for
NumericExactWitness ==
    /\ enc = "bridge"
    /\ call.method = "decode_u16"
    /\ value = VNumber("U8", 200)
    /\ ~call.res.ok
    /\ call.res.want = "U16"
    /\ call.res.hint.number = "U8"

\* the kind each non-numeric decode method accepts, and the error it
\* returns for every other kind
Accepts ==
    [decode_unit |-> "Unit", decode_bool |-> "Bool", decode_char |-> "Char",
     decode_bytes |-> "Bytes", decode_string |-> "String", decode_sequence |-> "Sequence",
     decode_map |-> "Map", decode_variant |-> "Variant"]

Rejects ==
    [decode_unit |-> "ExpectedUnit", decode_bool |-> "ExpectedBool",
     decode_char |-> "ExpectedChar", decode_bytes |-> "ExpectedBytes",
     decode_string |-> "ExpectedString", decode_sequence |-> "ExpectedSequence",
     decode_map |-> "ExpectedMap", decode_variant |-> "ExpectedVariant"]

\* C16: decode_unit, decode_bool, decode_char, decode_bytes, decode_string,
\* decode_sequence, decode_map and decode_variant of the ValueDecoder succeed
\* exactly when the Value is of the matching kind, handing out its content;
\* otherwise they fail with the ExpectedX error of the method, carrying the
\* type hint of the Value present.  The Value is the same after the call.
KindExact ==
    (enc = "bridge" /\ call.method \in DOMAIN Accepts) =>
        LET m == call.method
            r == call.res
        IN  /\ r.ok <=> value.kind = Accepts[m]
            /\ ~r.ok =>
                   /\ r.err = Rejects[m]
                   /\ r.hint = Value_type_hint(value)
                   /\ r.hint.kind = value.kind
            /\ (r.ok /\ m = "decode_bool") => r.val = value.b
            /\ (r.ok /\ m = "decode_char") => r.val = value.n
            /\ (r.ok /\ m \in {"decode_bytes", "decode_string"}) => r.val = value
            /\ (r.ok /\ m = "decode_sequence") => r.val = value.items
            /\ (r.ok /\ m = "decode_map") => r.val = value.pairs
            /\ (r.ok /\ m = "decode_variant") => r.val = value.pairs[1]
            /\ call.before = value

\* a string asked for as bytes
KindExactWitness ==
    /\ enc = "bridge"
    /\ call.method = "decode_bytes"
    /\ value = VString(<<104, 105>>)
    /\ call.res.err = "ExpectedBytes"
    /\ call.res.hint = [kind |-> "String", number |-> "", len |-> 2]

\* C17: decode_option of the ValueDecoder never fails: it returns None
\* exactly when the Value is Unit, and for every other Value x it returns
\* Some of a decoder over the same x, from which x decodes as it does directly.
OptionNeverFails ==
    (enc = "bridge" /\ call.method = "decode_option") =>
        /\ call.res.ok
        /\ ~call.res.val.some <=> value.kind = "Unit"
        /\ call.res.val.some =>
               /\ call.res.val.v = value
               /\ Value_decode(call.res.val.v) = Value_decode(value)
               /\ Value_decode(call.res.val.v).val = value

\* the empty sequence, which the wire does not tell from None, is Some here
OptionNeverFailsWitness ==
    /\ enc = "bridge"
    /\ call.method = "decode_option"
    /\ value = VSequence(<<>>)
    /\ call.res.ok
    /\ call.res.val.some
    /\ call.res.val.v = VSequence(<<>>)

\* C18: Value::decode of a map keeps the pairs as the pairs decoder of the
\* source yields them: one entry per pair, in the same order, duplicate
\* keys kept.
MapPairsKept ==
    (decoded.err # "not run" /\ value.kind = "Map") =>
        /\ decoded.ok
        /\ decoded.val.kind = "Map"
        /\ Len(decoded.val.pairs) = Len(value.pairs)
        /\ \A i \in 1..Len(value.pairs) : decoded.val.pairs[i] = value.pairs[i]

\* two pairs under the same key
MapPairsKeptWitness ==
    /\ decoded.ok
    /\ value = VMap(<< <<VNumber("U8", 5), VUnit>>, <<VNumber("U8", 5), VBool(TRUE)>> >>)
    /\ Len(decoded.val.pairs) = 2
    /\ decoded.val.pairs[1][1] = decoded.val.pairs[2][1]

\* C19: skip_second and skip_variant always return Ok(true); the next() of
\* the pairs decoder that follows a skip_second on the i-th pair returns the
\* (i+1)-th pair of the map unchanged, or None when the i-th was the last,
\* whether or not first() had been called on the skipped pair.
SkipAdvance ==
    /\ sub.op \in {"skip_second", "skip_variant"} => sub.ret = "true"
    /\ (sub.kind = "pairs" /\ sub.op = "next" /\ sub.prev = "skip_second") =>
           /\ sub.skipped >= 1
           /\ sub.ret = "Some" <=> sub.skipped < Len(value.pairs)
           /\ sub.ret = "None" <=> sub.skipped = Len(value.pairs)
           /\ sub.ret = "Some" =>
                  /\ sub.live
                  /\ sub.pos = sub.skipped + 1
                  /\ sub.cur = value.pairs[sub.skipped + 1]
                  /\ sub.rest = SubSeq(value.pairs, sub.skipped + 2, Len(value.pairs))
           /\ sub.ret = "None" => ~sub.live /\ sub.rest = <<>>

\* the second pair is yielded after the first was skipped without its key
\* having been asked for
SkipAdvanceWitness ==
    /\ sub.kind = "pairs"
    /\ sub.op = "next"
    /\ sub.prev = "skip_second"
    /\ ~sub.keyed
    /\ sub.skipped = 1
    /\ sub.ret = "Some"
    /\ sub.cur = <<VString(<<104, 105>>), VBool(TRUE)>>
    /\ value.pairs[1] = <<VNumber("U8", 5), VUnit>>

\* C20: Value::decode over a decoder whose type_hint() reports Any, as the
\* one the Decoder trait provides does, or Number with the number hint Any,
\* returns the unsupported type error, produces no Value, and calls no
\* decode method of the decoder.
AnyUnsupported ==
    (enc = "source" /\ call.method = "Value::decode"
     /\ (call.src.kind = "Any" \/ (call.src.kind = "Number" /\ call.src.number = "Any"))) =>
        /\ ~call.res.ok
        /\ call.res.err = "unsupported type"
        /\ call.res.hint = call.src
        /\ call.made = <<>>

\* the hint of the trait, against a hint with an arm, for which a method is called
AnyUnsupportedWitness ==
    /\ enc = "source"
    /\ call.method = "Value::decode"
    /\ call.src = Decoder_type_hint
    /\ call.res.err = "unsupported type"
    /\ Value_decode_provided([kind |-> "Unit", number |-> "", len |-> 0]).made = <<"decode_unit">>

\* the decode operations of the Decoder trait
DecodeOperations ==
    {"decode_unit", "decode_bool", "decode_char", "decode_number", "decode_array",
     "decode_bytes", "decode_string", "decode_option", "decode_pack", "decode_sequence",
     "decode_tuple", "decode_map", "decode_struct", "decode_variant"}
    \cup NumberMethods

\* C21: on a decoder that overrides none of the decode methods, every decode
\* operation returns the InvalidType error, naming the kind that was
\* expected and the text of the decoder's own expecting(), and no value.
ProvidedInvalidType ==
    /\ DOMAIN Expecting = DecodeOperations
    /\ (enc = "source" /\ call.method \in DecodeOperations) =>
           /\ ~call.res.ok
           /\ call.res.err = "InvalidType"
           /\ call.res.want = Expecting[call.method]
           /\ call.res.want # ""
           /\ call.res.says = call.offers
           /\ call.res.says \in SourceTexts
           /\ call.made = <<call.method>>

\* the number visitor entry point of a decoder over storage
ProvidedInvalidTypeWitness ==
    /\ enc = "source"
    /\ call.method = "decode_number"
    /\ call.res.err = "InvalidType"
    /\ call.res.want = "Number"
    /\ call.res.says = "value decoded from storage"

\* C22 as stated: the capacity Value::decode allocates for a Sequence or Map
\* hint never exceeds the bytes left in the input of the source.
CapacityWithinInput ==
    (enc = "source" /\ call.method = "Value::decode"
     /\ call.src.kind \in {"Sequence", "Map"}) => call.cap <= call.input

\* C23: decode_array::<N> of the ValueDecoder returns the bytes when the
\* Value is Bytes of length exactly N, ArrayOutOfBounds when it is Bytes of
\* any other length, shorter or longer, and ExpectedBytes when it is not Bytes.
ArrayExact ==
    (enc = "bridge" /\ call.method = "decode_array") =>
        LET N == call.arg
            r == call.res
        IN  /\ (value.kind = "Bytes" /\ Len(value.bytes) = N) =>
                   (r.ok /\ r.val = value.bytes /\ Len(r.val) = N)
            /\ (value.kind = "Bytes" /\ Len(value.bytes) # N) =>
                   (~r.ok /\ r.err = "ArrayOutOfBounds")
            /\ value.kind # "Bytes" =>
                   (~r.ok /\ r.err = "ExpectedBytes" /\ r.hint = Value_type_hint(value))

\* two bytes asked for as an array of one
ArrayExactWitness ==
    /\ enc = "bridge"
    /\ call.method = "decode_array"
    /\ call.arg = 1
    /\ value = VBytes(<<1, 2>>)
    /\ call.res.err = "ArrayOutOfBounds"

\* C24: the pack decoder over a Value::Sequence of L elements returns the
\* decoders of the elements in order on its first L calls of next(), and the
\* ExpectedPackValue error on every later call.
PackRunsOut ==
    (sub.kind = "pack" /\ sub.op = "next") =>
        LET L == Len(value.items)
        IN  /\ sub.asked <= L =>
                   /\ sub.ret = "decoder"
                   /\ sub.pos = sub.asked
                   /\ sub.got = value.items[sub.asked]
            /\ sub.asked > L =>
                   /\ sub.ret = "ExpectedPackValue"
                   /\ sub.pos = L
                   /\ sub.rest = <<>>

\* the second call past the end of a pack of two
PackRunsOutWitness ==
    /\ sub.kind = "pack"
    /\ sub.op = "next"
    /\ value = VSequence(<<VUnit, VBool(TRUE)>>)
    /\ sub.asked = 4
    /\ sub.ret = "ExpectedPackValue"

\* C25: the sequence decoder over a Value::Sequence of L elements yields the
\* L elements in order and None on every later call, and its size_hint() is
\* at every point Some of the number of elements not yet yielded; the pairs
\* decoder over a Value::Map does the same over its pairs.
SequenceYields ==
    sub.kind \in {"sequence", "pairs"} =>
        LET all == IF sub.kind = "sequence" THEN value.items ELSE value.pairs
            L == Len(all)
            yielded == IF sub.asked <= L THEN sub.asked ELSE L
        IN  /\ sub.pos = yielded
            /\ SequenceDecoder_size_hint(sub.rest) = [some |-> TRUE, n |-> L - yielded]
            /\ (sub.op = "next" /\ sub.asked <= L) =>
                   /\ sub.ret = "Some"
                   /\ sub.kind = "sequence" => sub.got = all[sub.asked]
                   /\ sub.kind = "pairs" => sub.cur = all[sub.asked]
            /\ (sub.op = "next" /\ sub.asked > L) => sub.ret = "None"

\* the second of two elements has just been yielded: nothing is left
SequenceYieldsWitness ==
    /\ sub.kind = "sequence"
    /\ sub.op = "next"
    /\ value = VSequence(<<VBool(TRUE), VUnit>>)
    /\ sub.asked = 2
    /\ sub.got = VUnit
    /\ SequenceDecoder_size_hint(sub.rest).n = 0

RECURSIVE StagedItems(_)
\* the bytes of the items accepted by the pack opened last, in call order
StagedItems(i) ==
    IF i = 0 \/ log[i].op = "encode_pack" THEN <<>>
    ELSE IF log[i].op \in PackItemOps /\ log[i].err = "none"
         THEN StagedItems(i - 1) \o log[i].bytes
         ELSE StagedItems(i - 1)

\* C26: while a pack encoder is open every step but finish leaves the writer
\* as it is and the staging buffer holds the bytes of the items in the order
\* they were encoded; finish appends Tag(Prefix, m) for m <= 30 staged bytes,
\* Tag(Prefix, 31) and the length m otherwise, and then the m staged bytes,
\* which is what encode_bytes writes for them: 0x20 alone for an empty pack.
PackStaged ==
    [][enc = "pack" =>
           /\ pack_buf = StagedItems(Len(log))
           /\ IF Len(stack') = Len(stack)
              THEN /\ writer' = writer
                   /\ log'[Len(log')].op \in PackItemOps
              ELSE LET m == Len(pack_buf)
                       head == IF m < DATA_MASK THEN <<Tag_new(KindPrefix, m)>>
                               ELSE <<Tag_new(KindPrefix, DATA_MASK)>> \o L_encode_usize(m)
                   IN  /\ log'[Len(log')].op = "pack_finish"
                       /\ writer' = writer \o head \o pack_buf
                       /\ writer' = writer \o encode_bytes(pack_buf).out
                       /\ m = 0 => writer' = writer \o <<32>>]_vars

\* a pack of the bytes 1 and 2 has been finished
PackStagedWitness ==
    /\ enc = "done"
    /\ Len(log) = 4
    /\ log[1].op = "encode_pack"
    /\ log[2].op = "pack_u8" /\ log[2].arg = 1
    /\ log[3].op = "pack_u8" /\ log[3].arg = 2
    /\ log[4].op = "pack_finish"
    /\ writer = <<34, 1, 2>>

\* an empty pack, and a pack of 31 bytes, have been finished
PackStagedEmpty == enc = "done" /\ Last.op = "pack_finish" /\ writer = <<32>>

PackStagedLong == enc = "done" /\ Last.op = "pack_finish" /\ Last.arg = DATA_MASK /\ Len(writer) > DATA_MASK + 1

\* the positions of the calls named op made on the outermost encoder
Outer(t, op) == {i \in 1..Len(t) : t[i].op = op /\ t[i].depth = 0}

\* the k-th position of a set of positions
Nth(S, k) == CHOOSE i \in S : Cardinality({j \in S : j < i}) = k - 1

\* the calls made strictly between two positions
Between(t, a, b) == SubSeq(t, a + 1, b - 1)

RECURSIVE ConcatEncodings(_)
\* the encodings of a list of Values one after the other
ConcatEncodings(values) ==
    IF values = <<>> THEN <<>>
    ELSE Value_encode(Head(values)).out \o ConcatEncodings(Tail(values))

RECURSIVE Flatten(_)
\* the keys and values of a list of pairs, each key before its value
Flatten(pairs) ==
    IF pairs = <<>> THEN <<>> ELSE <<Head(pairs)[1], Head(pairs)[2]>> \o Flatten(Tail(pairs))

\* C27: encoding a Value::Sequence of n elements calls encode_sequence(n),
\* then next() n times, each followed by the calls of the encoding of the
\* corresponding element, then end(); a Value::Map of n pairs calls
\* encode_map(n), then for each pair in list order encodes the key through
\* first() and then the value through second(), then end(); the bytes
\* written are the header followed by the encodings of the elements in list
\* order.
StructuralCalls ==
    (enc = "bridge" /\ output.direct.ran) =>
        LET t == output.direct.made
        IN  /\ value.kind = "Sequence" =>
                   LET n == Len(value.items)
                       at == Outer(t, "next")
                       stop(k) == IF k = n THEN Len(t) ELSE Nth(at, k + 1)
                   IN  /\ t[1] = ProtocolCall("encode_sequence", n, value, 0)
                       /\ t[Len(t)] = ProtocolCall("end", 0, VUnit, 0)
                       /\ Outer(t, "encode_sequence") = {1}
                       /\ Outer(t, "end") = {Len(t)}
                       /\ Cardinality(at) = t[1].len
                       /\ n > 0 => Nth(at, 1) = 2
                       /\ \A k \in 1..n :
                              Between(t, Nth(at, k), stop(k)) = Value_calls(value.items[k], 1)
                       /\ output.direct.out =
                              encode_sequence(n).out \o ConcatEncodings(value.items)
            /\ value.kind = "Map" =>
                   LET n == Len(value.pairs)
                       fs == Outer(t, "first")
                       ss == Outer(t, "second")
                       stop(k) == IF k = n THEN Len(t) ELSE Nth(fs, k + 1)
                   IN  /\ t[1] = ProtocolCall("encode_map", n, value, 0)
                       /\ t[Len(t)] = ProtocolCall("end", 0, VUnit, 0)
                       /\ Outer(t, "encode_map") = {1}
                       /\ Outer(t, "end") = {Len(t)}
                       /\ Cardinality(fs) = t[1].len
                       /\ Cardinality(ss) = t[1].len
                       /\ n > 0 => Nth(fs, 1) = 2
                       /\ \A k \in 1..n :
                              /\ Between(t, Nth(fs, k), Nth(ss, k)) = Value_calls(value.pairs[k][1], 1)
                              /\ Between(t, Nth(ss, k), stop(k)) = Value_calls(value.pairs[k][2], 1)
                       /\ output.direct.out =
                              encode_map(n).out \o ConcatEncodings(Flatten(value.pairs))

\* a sequence of two different elements, the second a nested sequence
StructuralCallsWitness ==
    /\ enc = "bridge"
    /\ output.direct.ran
    /\ value = VSequence(<<VBool(FALSE), VSequence(<<VUnit, VBool(TRUE)>>)>>)
    /\ Len(output.direct.made) = 11
    /\ output.direct.out = <<98, 0, 98, 96, 1>>

\* a map of two pairs has been encoded
StructuralCallsMap ==
    /\ enc = "bridge"
    /\ output.direct.ran
    /\ value.kind = "Map"
    /\ Len(value.pairs) = 2
    /\ Cardinality(Outer(output.direct.made, "second")) = 2

\* the number of sub-encoders a container announces in its length tag
Announced(frame) == IF frame.kind = "sequence" THEN frame.announced ELSE 2 * frame.announced

\* C28: a sequence opened with encode_sequence(n) is finished only after
\* exactly n items were encoded through encode_next, and a map, struct or
\* tuple opened with the length n only after exactly 2n sub-encoders were
\* handed out and consumed.
ItemsAsAnnounced ==
    [][(/\ enc = "container"
        /\ Top.kind \in {"sequence", "map", "struct", "tuple"}
        /\ Len(stack') < Len(stack)) => Top.items = Announced(Top)]_vars

\* C29: every step of the wire encoder leaves the bytes already written in
\* place and at most appends to them; handing out a sub-encoder and
\* finishing a sequence or pair encoder leave the writer as it is.
AppendOnly ==
    [][/\ Len(writer') >= Len(writer)
       /\ SubSeq(writer', 1, Len(writer)) = writer
       /\ (enc = "container" /\ enc' = "encoder") => writer' = writer
       /\ (enc = "container" /\ Len(stack') < Len(stack)) => writer' = writer]_vars

\* a sequence of two items has been finished: the tag and the two items
AppendOnlyWitness ==
    /\ enc = "done"
    /\ stack = <<>>
    /\ Len(log) = 3
    /\ log[1].op = "encode_sequence" /\ log[1].arg = 2
    /\ log[2].side = "next"
    /\ log[3].side = "next"
    /\ Len(writer) = log[3].at + log[3].len
    /\ writer[1] = 98

\* C30: a Value::Map of n pairs is encoded as the Value::Sequence of its 2n
\* keys and values is; Value::Variant((a, b)) is encoded as
\* Value::Sequence([a, b]) and Value::Map([(a, b)]) are, in the bytes 0x62,
\* a, b; Value::Unit, Value::Sequence([]) and Value::Map([]) are all encoded
\* in the byte 0x60.
KindsCollide ==
    (enc = "bridge" /\ output.direct.ran) =>
        LET out == output.direct.out
        IN  /\ value.kind = "Map" => out = Value_encode(VSequence(Flatten(value.pairs))).out
            /\ value.kind = "Variant" =>
                   LET a == value.pairs[1][1]
                       b == value.pairs[1][2]
                   IN  /\ out = Value_encode(VSequence(<<a, b>>)).out
                       /\ out = Value_encode(VMap(<< <<a, b>> >>)).out
                       /\ out = <<98>> \o Value_encode(a).out \o Value_encode(b).out
            /\ value \in {VUnit, VSequence(<<>>), VMap(<<>>)} => out = <<96>>
            /\ output.direct.err = "none"

\* a map of two pairs encoded as the sequence of four
KindsCollideWitness ==
    /\ enc = "bridge"
    /\ output.direct.ran
    /\ value = VMap(<< <<VNumber("U8", 5), VBool(TRUE)>>, <<VString(<<104, 105>>), VUnit>> >>)
    /\ output.direct.out = <<100, 5, 1, 34, 104, 105, 96>>

\* the empty map, and a variant, have been encoded
KindsCollideEmpty == enc = "bridge" /\ output.direct.ran /\ value = VMap(<<>>)

KindsCollideVariant == enc = "bridge" /\ output.direct.ran /\ value.kind = "Variant"

====
